---- MODULE Spec2Model ----
(***************************************************************************)
(* The PubMed XML converter form: the PDFtoXMLConverter component (the     *)
(* Conversion Session) and its two DropZone instances (the File Intake).   *)
(*                                                                         *)
(* A state is the React state of the mounted components after a render,    *)
(* plus the handleSubmit invocations that are suspended at an await.       *)
(* JavaScript runs one handler or one continuation at a time, so each      *)
(* action is one event handler run to its end, or one continuation of      *)
(* handleSubmit run from one await to the next, followed by the render.    *)
(***************************************************************************)
EXTENDS Integers, Sequences, FiniteSets, Bags, TLC

VARIABLES
    articleType,       \* useState("abstract")
    pdfFile,           \* useState(null)
    figures,           \* useState([])
    conversionState,   \* useState("idle")
    downloadUrl,       \* useState(null)
    validationErrors,  \* useState([])
    pdfZoneFiles,      \* `files` of the DropZone with multiple={false}
    figZoneFiles,      \* `files` of the DropZone with multiple={true}
    requests,          \* the bag of suspended handleSubmit invocations
    mounted,           \* FALSE once a render has thrown
    last               \* the last handler or continuation run, and what it showed

vars == <<articleType, pdfFile, figures, conversionState, downloadUrl,
          validationErrors, pdfZoneFiles, figZoneFiles, requests, mounted, last>>

session == <<articleType, pdfFile, figures, conversionState, downloadUrl,
             validationErrors>>

-----------------------------------------------------------------------------
(* Bounds of the model. *)

\* handleSubmit invocations that may be suspended at the same time
MaxInFlight == 2

\* files the multi-mode DropZone may hold
MaxFigures == 1

\* files the multi-mode DropZone may hold when figures of two kinds are picked,
\* several at a time
MaxIntakeFigures == 2

-----------------------------------------------------------------------------
(* Values. *)

\* A file name is the sequence of its pieces, so that String.replace and
\* string concatenation are computed on it.
PdfA == [name |-> <<"a", ".pdf">>, type |-> "application/pdf"]

PdfB == [name |-> <<"b", ".pdf">>, type |-> "application/pdf"]

Png == [name |-> <<"fig", ".png">>, type |-> "image/png"]

\* JavaScript's null and undefined, as values of the same shape as a file
Null == [name |-> <<>>, type |-> "null"]

Undefined == [name |-> <<>>, type |-> "undefined"]

Jpg == [name |-> <<"photo", ".jpg">>, type |-> "image/jpeg"]

PdfFiles == {PdfA, PdfB}

FigureFiles == {Png}

Files == PdfFiles \cup FigureFiles

IntakeFigureFiles == {Png, Jpg}

\* one drop or one pick of the file dialog of a DropZone with multiple={true}:
\* up to n files of S, in the order the browser lists them
Picks(S, n) == UNION {[1..k -> S] : k \in 0..n}

ArticleTypes == {"abstract", "full"}

\* what one drop or one pick of the file dialog hands to a DropZone
Selections(S) == {<<>>} \cup {<<f>> : f \in S}

\* downloadUrl is null or the object URL of a ZIP blob
NullUrl == [blob |-> Null]

\* the ZIP the backend returns for a request whose pdf field is f
ZipFor(f) == [of |-> f]

IssueTitle == [element |-> "title", message |-> "missing"]

IssueAbstract == [element |-> "abstract", message |-> "too long",
                  suggestion |-> "shorten"]

\* the text of validation_report.json: unparsable, the JSON null, or an object
\* whose errors field is absent, null or an array
NoReport == [parse |-> "absent", hasErrors |-> FALSE, errors |-> <<>>, isNull |-> FALSE]

ReportTexts ==
    { [parse |-> "SyntaxError", hasErrors |-> FALSE, errors |-> <<>>, isNull |-> FALSE],
      [parse |-> "null", hasErrors |-> FALSE, errors |-> <<>>, isNull |-> FALSE],
      [parse |-> "object", hasErrors |-> FALSE, errors |-> <<>>, isNull |-> FALSE],
      [parse |-> "object", hasErrors |-> TRUE, errors |-> <<>>, isNull |-> TRUE] }
    \cup { [parse |-> "object", hasErrors |-> TRUE, errors |-> l, isNull |-> FALSE] :
             l \in {<<>>, <<IssueTitle>>, <<IssueAbstract, IssueTitle>>} }

\* the body of a non-OK response: unparsable, the JSON null, or an object whose
\* error field is absent or a string
ErrorBodies ==
    { [parse |-> "SyntaxError", hasError |-> FALSE, error |-> ""],
      [parse |-> "null", hasError |-> FALSE, error |-> ""],
      [parse |-> "object", hasError |-> FALSE, error |-> ""],
      [parse |-> "object", hasError |-> TRUE, error |-> ""],
      [parse |-> "object", hasError |-> TRUE, error |-> "bad pdf"] }

NoArg == [none |-> TRUE]

NoLink == [href |-> NullUrl, download |-> <<>>]

\* last, for a step `op` with input `arg` that alerted `alert` and clicked `link`
\* (`alert` is "" when nothing was alerted, `link` is NoLink when none was clicked)
Event(op, arg, alert, link) == [op |-> op, arg |-> arg, alert |-> alert, link |-> link]

-----------------------------------------------------------------------------
(* Pure functions of the code. *)

\* JavaScript truthiness of a file-shaped value
Truthy(v) == v.type \notin {"null", "undefined"}

\* Array.from(files)[0]: undefined when the selection is empty
First(selected) == IF Len(selected) > 0 THEN selected[1] ELSE Undefined

\* setFiles(prev => multiple ? [...prev, ...selected] : [selected[0]])
DropZoneFiles(prev, multiple, selected) ==
    IF multiple THEN prev \o selected ELSE <<First(selected)>>

\* onFileUpload(multiple ? selected : selected[0])
DropZoneArgument(multiple, selected) ==
    IF multiple THEN selected ELSE First(selected)

\* s with its first occurrence of piece removed: String.replace(piece, "")
ReplaceFirst(s, piece) ==
    IF \E i \in 1..Len(s) : s[i] = piece
    THEN LET i == CHOOSE k \in 1..Len(s) :
                      s[k] = piece /\ \A j \in 1..(k - 1) : s[j] # piece
         IN  SubSeq(s, 1, i - 1) \o SubSeq(s, i + 1, Len(s))
    ELSE s

\* pdfFile.name.replace(".pdf", "") + ".zip"
DownloadName(file) == Append(ReplaceFirst(file.name, ".pdf"), ".zip")

\* window.URL.createObjectURL(zipBlob)
ObjectURL(zip) == [blob |-> zip]

\* FormData with formData.set("figures", fig): each figure replaces the last
FormData_Set(pdf, type, figs) ==
    [pdf |-> pdf, articleType |-> type,
     figures |-> IF figs = <<>> THEN <<>> ELSE <<figs[Len(figs)]>>]

\* new FormData() with pdf, articleType and one figures entry per figure
FormData(pdf, type, figs) == [pdf |-> pdf, articleType |-> type, figures |-> figs]

\* ErrorMessage with ?? in place of ||: an empty error string is kept
ErrorMessage_Nullish(body) ==
    IF body.hasError THEN body.error ELSE "Conversion failed"

\* data.error || "Conversion failed"
ErrorMessage(body) ==
    IF body.hasError /\ body.error # "" THEN body.error ELSE "Conversion failed"

\* alert("Error: " + error.message)
CatchAlert(message) == "Error: " \o message

\* the message of the error an await of handleSubmit rejects with
RejectionMessage(pc) ==
    CASE pc = "fetch" -> "Failed to fetch"
      [] pc = "loadAsync" -> "Can't find end of central directory"
      [] OTHER -> "Corrupted zip entry"

\* the submit button's disabled attribute, negated
SubmitEnabled == pdfFile # Null /\ conversionState # "converting"

\* the condition under which SuccessDownload, and its button, is rendered
DownloadShown == conversionState = "completed" /\ downloadUrl # NullUrl

\* A render throws a TypeError when it reads .name of null or of undefined:
\* pdfFile.name in the SuccessDownload props, file.name in the DropZone list.
RenderThrows(state, url, pdf, zoneFiles) ==
    \/ state = "completed" /\ url # NullUrl /\ pdf = Null
    \/ \E i \in 1..Len(zoneFiles) : ~Truthy(zoneFiles[i])

\* the render that follows every state update; React unmounts the tree when
\* a render throws
Render ==
    mounted' = ~RenderThrows(conversionState', downloadUrl', pdfFile', pdfZoneFiles')

-----------------------------------------------------------------------------
(* The state after construction. *)

Init ==
    /\ articleType = "abstract"
    /\ pdfFile = Null
    /\ figures = <<>>
    /\ conversionState = "idle"
    /\ downloadUrl = NullUrl
    /\ validationErrors = <<>>
    /\ pdfZoneFiles = <<>>
    /\ figZoneFiles = <<>>
    /\ requests = EmptyBag
    /\ mounted = TRUE
    /\ last = Event("mount", NoArg, "", NoLink)

-----------------------------------------------------------------------------
(* The event handlers. *)

\* onChange of the article type <select>
setArticleType(t) ==
    /\ articleType' = t
    /\ last' = Event("setArticleType", NoArg, "", NoLink)
    /\ UNCHANGED <<pdfFile, figures, conversionState, downloadUrl, validationErrors>>

\* handlePDFUpload without its setValidationErrors([])
handlePDFUpload_KeepsErrors(file) ==
    IF Truthy(file) /\ file.type = "application/pdf"
    THEN /\ pdfFile' = file
         /\ conversionState' = "idle"
         /\ downloadUrl' = NullUrl
         /\ last' = Event("handlePDFUpload", file, "", NoLink)
         /\ UNCHANGED <<articleType, figures, validationErrors>>
    ELSE /\ last' = Event("handlePDFUpload", file, "Please upload a PDF file", NoLink)
         /\ UNCHANGED session

handlePDFUpload(file) ==
    IF Truthy(file) /\ file.type = "application/pdf"
    THEN /\ pdfFile' = file
         /\ conversionState' = "idle"
         /\ downloadUrl' = NullUrl
         /\ validationErrors' = <<>>
         /\ last' = Event("handlePDFUpload", file, "", NoLink)
         /\ UNCHANGED <<articleType, figures>>
    ELSE /\ last' = Event("handlePDFUpload", file, "Please upload a PDF file", NoLink)
         /\ UNCHANGED session

\* handleFigureUpload with setFigures(imageFiles): the list is replaced
handleFigureUpload_Replaces(files) ==
    /\ figures' = files
    /\ last' = Event("handleFigureUpload", NoArg, "", NoLink)
    /\ UNCHANGED <<articleType, pdfFile, conversionState, downloadUrl, validationErrors>>

handleFigureUpload(files) ==
    /\ figures' = figures \o files
    /\ last' = Event("handleFigureUpload", NoArg, "", NoLink)
    /\ UNCHANGED <<articleType, pdfFile, conversionState, downloadUrl, validationErrors>>

\* handleSubmit without its if (!pdfFile) return
handleSubmit_NoGuard ==
    /\ BagCardinality(requests) < MaxInFlight
    /\ conversionState' = "converting"
    /\ requests' = requests (+) SetToBag(
           {[pc |-> "fetch", body |-> FormData(pdfFile, articleType, figures)]})
    /\ last' = Event("handleSubmit", NoArg, "", NoLink)
    /\ UNCHANGED <<articleType, pdfFile, figures, downloadUrl, validationErrors>>

\* handleSubmit up to its first await, the fetch
handleSubmit ==
    IF pdfFile = Null
    THEN /\ last' = Event("handleSubmit", NoArg, "Please select a PDF file first", NoLink)
         /\ UNCHANGED <<session, requests>>
    ELSE /\ BagCardinality(requests) < MaxInFlight
         /\ conversionState' = "converting"
         /\ requests' = requests (+) SetToBag(
                {[pc |-> "fetch", body |-> FormData(pdfFile, articleType, figures)]})
         /\ last' = Event("handleSubmit", NoArg, "", NoLink)
         /\ UNCHANGED <<articleType, pdfFile, figures, downloadUrl, validationErrors>>

\* handleDownload without its setFigures([])
handleDownload_KeepsFigures ==
    IF downloadUrl # NullUrl /\ pdfFile # Null
    THEN /\ last' = Event("handleDownload", NoArg, "",
                          [href |-> downloadUrl, download |-> DownloadName(pdfFile)])
         /\ conversionState' = "idle"
         /\ pdfFile' = Null
         /\ downloadUrl' = NullUrl
         /\ validationErrors' = <<>>
         /\ UNCHANGED <<articleType, figures>>
    ELSE /\ last' = Event("handleDownload", NoArg, "", NoLink)
         /\ UNCHANGED session

handleDownload ==
    IF downloadUrl # NullUrl
    THEN IF pdfFile = Null
         THEN \* pdfFile.name throws before anything is reset
              /\ last' = Event("handleDownload", NoArg, "", NoLink)
              /\ UNCHANGED session
         ELSE /\ last' = Event("handleDownload", NoArg, "",
                               [href |-> downloadUrl, download |-> DownloadName(pdfFile)])
              /\ conversionState' = "idle"
              /\ pdfFile' = Null
              /\ figures' = <<>>
              /\ downloadUrl' = NullUrl
              /\ validationErrors' = <<>>
              /\ UNCHANGED articleType
    ELSE /\ last' = Event("handleDownload", NoArg, "", NoLink)
         /\ UNCHANGED session

-----------------------------------------------------------------------------
(* The continuations of handleSubmit, for a suspended invocation r. *)

\* Catch that also clears the validation issues
Catch_ClearsErrors(r, input, message) ==
    /\ conversionState' = "idle"
    /\ requests' = requests (-) SetToBag({r})
    /\ validationErrors' = <<>>
    /\ last' = Event("catch", [at |-> r.pc, input |-> input], CatchAlert(message), NoLink)
    /\ UNCHANGED <<articleType, pdfFile, figures, downloadUrl>>

\* the catch block: console.error, alert, setConversionState("idle")
Catch(r, input, message) ==
    /\ conversionState' = "idle"
    /\ requests' = requests (-) SetToBag({r})
    /\ last' = Event("catch", [at |-> r.pc, input |-> input], CatchAlert(message), NoLink)
    /\ UNCHANGED <<articleType, pdfFile, figures, downloadUrl, validationErrors>>

\* ReportErrors with an empty errors array taken as falsy
ReportErrors_EmptyIsFalsy(report, prev) ==
    IF report.hasErrors /\ ~report.isNull /\ report.errors # <<>>
    THEN report.errors
    ELSE prev

\* if (validationJson.errors) setValidationErrors(validationJson.errors):
\* what validationErrors holds after it, prev being what it held before
ReportErrors(report, prev) ==
    IF report.hasErrors /\ ~report.isNull THEN report.errors ELSE prev

\* lines 113-118, once the report (if any) was read: the object URL is set
\* and the state becomes completed
Complete(r, report, newErrors) ==
    /\ validationErrors' = newErrors
    /\ downloadUrl' = ObjectURL(r.zip)
    /\ conversionState' = "completed"
    /\ requests' = requests (-) SetToBag({r})
    /\ last' = Event("completed", report, "", NoLink)
    /\ UNCHANGED <<articleType, pdfFile, figures>>

\* a continuation that only moves on to the next await
Advance(r, next) ==
    /\ requests' = (requests (-) SetToBag({r})) (+) SetToBag({next})
    /\ last' = Event("await", NoArg, "", NoLink)
    /\ UNCHANGED session

\* await fetch(...) resolves with a response: OK with the ZIP for the pdf sent,
\* or not OK
FetchResolves(r, ok) ==
    /\ r.pc = "fetch"
    /\ IF ok
       THEN Advance(r, [pc |-> "loadAsync", zip |-> ZipFor(r.body.pdf)])
       ELSE Advance(r, [pc |-> "json"])

\* await response.json() of a non-OK response resolves or rejects
JsonSettles(r, body) ==
    /\ r.pc = "json"
    /\ CASE body.parse = "SyntaxError" -> Catch(r, body, "Conversion failed")
         [] body.parse = "null" ->
                Catch(r, body, "Cannot read properties of null (reading 'error')")
         [] OTHER -> Catch(r, body, ErrorMessage(body))

\* await response.blob(), await zipBlob.arrayBuffer() and await
\* JSZip.loadAsync(arrayBuffer) resolve: three awaits in a row between which
\* handleSubmit neither reads nor writes the component's state, taken as one.
\* zip.file("validation_report.json") is then null or an entry.
LoadAsyncResolves(r, hasReport) ==
    /\ r.pc = "loadAsync"
    /\ IF hasReport
       THEN Advance(r, [r EXCEPT !.pc = "async"])
       ELSE Complete(r, NoReport, validationErrors)

\* AsyncResolves with the object URL created before the report is parsed
AsyncResolves_UrlFirst(r, report) ==
    /\ r.pc = "async"
    /\ IF report.parse \in {"SyntaxError", "null"}
       THEN /\ downloadUrl' = ObjectURL(r.zip)
            /\ conversionState' = "idle"
            /\ requests' = requests (-) SetToBag({r})
            /\ last' = Event("catch", [at |-> r.pc, input |-> report],
                             CatchAlert("Unexpected token in JSON"), NoLink)
            /\ UNCHANGED <<articleType, pdfFile, figures, validationErrors>>
       ELSE Complete(r, report, ReportErrors(report, validationErrors))

\* await validationFile.async("string") resolves with the text of the report
AsyncResolves(r, report) ==
    /\ r.pc = "async"
    /\ CASE report.parse = "SyntaxError" ->
                Catch(r, report, "Unexpected token in JSON")
         [] report.parse = "null" ->
                Catch(r, report, "Cannot read properties of null (reading 'errors')")
         [] OTHER -> Complete(r, report, ReportErrors(report, validationErrors))

\* fetch, one of blob, arrayBuffer and loadAsync, or async rejects
AwaitRejects(r) ==
    /\ r.pc \in {"fetch", "loadAsync", "async"}
    /\ Catch(r, NoArg, RejectionMessage(r.pc))

-----------------------------------------------------------------------------
(* The actions: one user event or one continuation, then the render. *)

\* the <select> fires onChange only when another option is chosen
ArticleTypeChange ==
    /\ mounted
    /\ \E t \in ArticleTypes \ {articleType} : setArticleType(t)
    /\ UNCHANGED <<pdfZoneFiles, figZoneFiles, requests>>
    /\ Render

\* handleDrop or handleChange of the PDF DropZone
PdfZoneSelect ==
    /\ mounted
    /\ \E selected \in Selections(Files) :
          /\ pdfZoneFiles' = DropZoneFiles(pdfZoneFiles, FALSE, selected)
          /\ handlePDFUpload(DropZoneArgument(FALSE, selected))
    /\ UNCHANGED <<figZoneFiles, requests>>
    /\ Render

\* handleDrop or handleChange of the figures DropZone
FigureZoneSelect ==
    /\ mounted
    /\ \E selected \in Selections(FigureFiles) :
          /\ Len(figZoneFiles) + Len(selected) <= MaxFigures
          /\ figZoneFiles' = DropZoneFiles(figZoneFiles, TRUE, selected)
          /\ handleFigureUpload(DropZoneArgument(TRUE, selected))
    /\ UNCHANGED <<pdfZoneFiles, requests>>
    /\ Render

\* handleDrop or handleChange of the figures DropZone, with several files of
\* two kinds
FigureZonePick ==
    /\ mounted
    /\ \E selected \in Picks(IntakeFigureFiles, MaxIntakeFigures) :
          /\ Len(figZoneFiles) + Len(selected) <= MaxIntakeFigures
          /\ figZoneFiles' = DropZoneFiles(figZoneFiles, TRUE, selected)
          /\ handleFigureUpload(DropZoneArgument(TRUE, selected))
    /\ UNCHANGED <<pdfZoneFiles, requests>>
    /\ Render

\* a click on the submit button, which the browser ignores while disabled
SubmitClick ==
    /\ mounted
    /\ SubmitEnabled
    /\ handleSubmit
    /\ UNCHANGED <<pdfZoneFiles, figZoneFiles>>
    /\ Render

\* a submit event dispatched on the form itself (form.requestSubmit()): the
\* handler runs whatever the button's state
SubmitEvent ==
    /\ mounted
    /\ handleSubmit
    /\ UNCHANGED <<pdfZoneFiles, figZoneFiles>>
    /\ Render

\* a click on the Download ZIP button, which exists only while it is rendered
DownloadClick ==
    /\ mounted
    /\ DownloadShown
    /\ handleDownload
    /\ UNCHANGED <<pdfZoneFiles, figZoneFiles, requests>>
    /\ Render

\* a submit event while no handleSubmit is suspended
SubmitAlone ==
    /\ requests = EmptyBag
    /\ SubmitEvent

\* handleDownload called whatever is rendered
DownloadCall ==
    /\ mounted
    /\ handleDownload
    /\ UNCHANGED <<pdfZoneFiles, figZoneFiles, requests>>
    /\ Render

\* one continuation of one suspended handleSubmit, then the render
Resume(A) ==
    /\ mounted
    /\ A
    /\ UNCHANGED <<pdfZoneFiles, figZoneFiles>>
    /\ Render

FetchSettles ==
    \E r \in BagToSet(requests), ok \in BOOLEAN : Resume(FetchResolves(r, ok))

ErrorBodySettles ==
    \E r \in BagToSet(requests), body \in ErrorBodies : Resume(JsonSettles(r, body))

ZipLoaded ==
    \E r \in BagToSet(requests), hasReport \in BOOLEAN :
        Resume(LoadAsyncResolves(r, hasReport))

ReportRead ==
    \E r \in BagToSet(requests), report \in ReportTexts : Resume(AsyncResolves(r, report))

Rejection ==
    \E r \in BagToSet(requests) : Resume(AwaitRejects(r))

Continue ==
    \/ FetchSettles
    \/ ErrorBodySettles
    \/ ZipLoaded
    \/ ReportRead
    \/ Rejection

\* The form as a user drives it: every event goes through a rendered control.
Next ==
    \/ ArticleTypeChange
    \/ PdfZoneSelect
    \/ FigureZoneSelect
    \/ SubmitClick
    \/ DownloadClick
    \/ Continue

Spec == Init /\ [][Next]_vars

\* The form with a backend that answers: a suspended handleSubmit is resumed,
\* by the resolution or by the rejection of what it awaits.
SpecLive == Spec /\ WF_vars(Continue)

\* The handlers as a caller of the component's functions drives them.
NextHandlers ==
    \/ ArticleTypeChange
    \/ PdfZoneSelect
    \/ FigureZoneSelect
    \/ SubmitEvent
    \/ DownloadCall
    \/ Continue

SpecHandlers == Init /\ [][NextHandlers]_vars

\* The handlers with richer figure selections, one conversion at a time.
NextIntake ==
    \/ ArticleTypeChange
    \/ PdfZoneSelect
    \/ FigureZonePick
    \/ SubmitAlone
    \/ DownloadCall
    \/ Continue

SpecIntake == Init /\ [][NextIntake]_vars

-----------------------------------------------------------------------------
(* What a state shows of the step that led to it. *)

\* the fetch calls that have not yet returned a response
PendingCalls == {r \in BagToSet(requests) : r.pc = "fetch"}

NumPendingCalls ==
    BagCardinality([r \in PendingCalls |-> CopiesIn(r, requests)])

\* the last step was handlePDFUpload and it accepted its file
AcceptedPdf == last.op = "handlePDFUpload" /\ last.alert = ""

\* the last step was handleSubmit and it found no PDF
SubmitRefused == last.op = "handleSubmit" /\ last.alert # ""

\* the last step was a handleSubmit that ended in success and the ZIP
\* had no validation_report.json
CompletedWithoutReport == last.op = "completed" /\ last.arg.parse = "absent"

\* ... and the ZIP had a validation_report.json whose errors field is a list
CompletedWithErrors ==
    /\ last.op = "completed"
    /\ last.arg.parse = "object"
    /\ last.arg.hasErrors
    /\ ~last.arg.isNull

\* the last step was the catch block, reached from the body of a non-OK response
FailedNotOk == last.op = "catch" /\ last.arg.at = "json"

\* the last step was a handleDownload that clicked the link
Saved == last.op = "handleDownload" /\ last.link # NoLink

SessionReset ==
    /\ conversionState = "idle"
    /\ pdfFile = Null
    /\ figures = <<>>
    /\ downloadUrl = NullUrl
    /\ validationErrors = <<>>

-----------------------------------------------------------------------------
(* The claims. *)

\* C1: at most one conversion request is in flight: no Submit issues a network
\* call while an earlier call has not yet returned its response.
C1_OneInFlight == NumPendingCalls <= 1

\* C2: Submit with no PDF selected is a no-op: the state remains idle, the PDF,
\* the figures, the download artifact and the validation issues are unchanged,
\* no network call is issued, and the user is alerted.
C2_SubmitWithoutPdf ==
    [][(pdfFile = Null /\ last'.op = "handleSubmit") =>
          /\ conversionState = "idle"
          /\ UNCHANGED <<session, requests>>
          /\ last'.alert = "Please select a PDF file first"]_vars

\* a Submit with no PDF, made while the figure list holds a figure
C2_Witness ==
    /\ SubmitRefused
    /\ pdfFile = Null
    /\ figures # <<>>

\* C3: selecting a file of type application/pdf, from any prior state, leaves
\* that file as the selected PDF, the state idle, no download artifact and no
\* validation issues.
C3_NewPdfResets ==
    AcceptedPdf =>
        /\ pdfFile = last.arg
        /\ pdfFile.type = "application/pdf"
        /\ conversionState = "idle"
        /\ downloadUrl = NullUrl
        /\ validationErrors = <<>>

\* a PDF selected while a request made for the other PDF awaits its response
C3_Witness ==
    /\ AcceptedPdf
    /\ \E r \in PendingCalls : r.body.pdf # pdfFile

\* C4: after a successful submit whose ZIP has no validation_report.json, the
\* validation issues are empty and the state is completed.
C4_NoReportNoIssues ==
    CompletedWithoutReport => validationErrors = <<>> /\ conversionState = "completed"

\* C5: after a successful submit whose ZIP has a validation_report.json with
\* an errors list, the validation issues are exactly that list, the state is
\* completed and a download artifact is held.
C5_ReportReplacesIssues ==
    CompletedWithErrors =>
        /\ validationErrors = last.arg.errors
        /\ conversionState = "completed"
        /\ downloadUrl # NullUrl

\* a report of two issues has become the collection, in the report's order
C5_Witness ==
    /\ CompletedWithErrors
    /\ validationErrors = <<IssueAbstract, IssueTitle>>

\* C6, as stated: after a non-OK response the state is idle and the message
\* shown is exactly the error string of the JSON body, or "Conversion failed"
\* when the body cannot be parsed.
C6_MessageIsErrorString ==
    (FailedNotOk /\ last.arg.input.parse = "SyntaxError" =>
        conversionState = "idle" /\ last.alert = "Conversion failed")
    /\ (FailedNotOk /\ last.arg.input.parse = "object" /\ last.arg.input.hasError =>
        conversionState = "idle" /\ last.alert = last.arg.input.error)

\* C6, amended: after a non-OK response the state is idle and the alert is
\* "Error: " followed by the error string of the JSON body when that string is
\* not empty, and by "Conversion failed" when the body cannot be parsed or is
\* an object with no error field or an empty one.
C6_AlertIsPrefixedMessage ==
    (FailedNotOk /\ last.arg.input.parse \in {"SyntaxError", "object"}) =>
        /\ conversionState = "idle"
        /\ last.alert =
             IF /\ last.arg.input.parse = "object"
                /\ last.arg.input.hasError
                /\ last.arg.input.error # ""
             THEN "Error: " \o last.arg.input.error
             ELSE "Error: Conversion failed"

\* a non-OK response whose body has an empty error string
C6_Witness ==
    /\ FailedNotOk
    /\ last.arg.input.parse = "object"
    /\ last.arg.input.hasError
    /\ last.arg.input.error = ""

\* C7: Download with an artifact held resets the session: state idle, no PDF,
\* no figures, no artifact, no issues; and a Submit made while no PDF is
\* selected changes nothing and issues no network call.
C7_DownloadResets ==
    [][/\ (downloadUrl # NullUrl /\ last'.op = "handleDownload") =>
             SessionReset' /\ last'.link.href = downloadUrl
       /\ (pdfFile = Null /\ last'.op = "handleSubmit") =>
             UNCHANGED <<session, requests>>]_vars

\* a Submit refused after a Download: the PDF DropZone still shows a PDF, and
\* the figures DropZone a figure, that the session no longer holds
C7_Witness ==
    /\ SubmitRefused
    /\ pdfZoneFiles # <<>>
    /\ pdfZoneFiles[1] \in PdfFiles
    /\ figZoneFiles # <<>>
    /\ SessionReset

\* C8: the conversion state changes only from idle to converting, from
\* converting to completed or idle, and from completed to idle.
C8_ListedTransitions ==
    [][conversionState' # conversionState =>
          <<conversionState, conversionState'>> \in
              { <<"idle", "converting">>, <<"converting", "completed">>,
                <<"converting", "idle">>, <<"completed", "idle">> }]_vars

\* C9: a PDF selected while a request is in flight cancels that request: when
\* the abandoned request ends, the state, the download artifact and the
\* validation issues are what the selection left.
C9_SelectionCancels ==
    [][(AcceptedPdf /\ requests # EmptyBag /\ last'.op \in {"completed", "catch"}) =>
          UNCHANGED <<conversionState, downloadUrl, validationErrors>>]_vars

\* C10: Download saves, under the name derived from a PDF, the ZIP that was
\* returned for that PDF.
C10_SavedZipIsOfNamedPdf ==
    Saved =>
        \E f \in PdfFiles :
            /\ last.link.download = DownloadName(f)
            /\ last.link.href = ObjectURL(ZipFor(f))


\* C11: a failed conversion attempt creates no download artifact and leaves
\* the validation issues, the selected PDF and the figure list as they were;
\* only the conversion state changes, to idle.
C11_FailureKeepsSession ==
    [][last'.op = "catch" =>
          /\ conversionState' = "idle"
          /\ UNCHANGED <<pdfFile, figures, downloadUrl, validationErrors, articleType>>]_vars

\* an attempt has failed while issues of an earlier conversion were displayed
\* and a figure was in the list
C11_Witness ==
    /\ last.op = "catch"
    /\ validationErrors # <<>>
    /\ figures # <<>>

\* C12: in multi mode each selection appends its files, in order, to the
\* DropZone's list and the callback appends those same files, and no others,
\* to the figure list: adding F and then G yields a list ending in F, G with
\* every earlier entry kept in place.
C12_SelectionsAppend ==
    [][last'.op = "handleFigureUpload" =>
          \E added \in Picks(IntakeFigureFiles, MaxIntakeFigures) :
              /\ figZoneFiles' = figZoneFiles \o added
              /\ figures' = figures \o added]_vars

\* G was added in a selection of its own: F alone went out with a request
\* that is still pending, and the list now ends in F, G
C12_Witness ==
    /\ last.op = "handleFigureUpload"
    /\ figures = <<Png, Jpg>>
    /\ figZoneFiles = <<Png, Jpg>>
    /\ \E r \in PendingCalls : r.body.figures = <<Png>>

\* C13: a Submit attempted while the state is converting aborts: it issues
\* no network call and changes no session field.
C13_SubmitWhileConvertingAborts ==
    [][(conversionState = "converting" /\ last'.op = "handleSubmit") =>
          UNCHANGED <<session, requests>>]_vars

\* the last step was the catch block, reached because the ZIP could not be
\* decoded or the report could not be read or parsed
FailedDecoding == last.op = "catch" /\ last.arg.at \in {"loadAsync", "async"}

\* C14: when decoding the ZIP or parsing validation_report.json fails after
\* an OK response, the state becomes idle, no download artifact is created
\* and the validation issues are not modified.
C14_DecodeFailureIsFailure ==
    [][FailedDecoding' =>
          /\ conversionState' = "idle"
          /\ UNCHANGED <<downloadUrl, validationErrors>>]_vars

\* a report that is not JSON, read while no artifact is held
C14_Witness ==
    /\ FailedDecoding
    /\ last.arg.at = "async"
    /\ last.arg.input.parse = "SyntaxError"
    /\ downloadUrl = NullUrl
    /\ conversionState = "idle"

\* C15: every accepted Submit eventually leaves the converting state: once
\* the backend answers or the call fails, converting is followed by completed
\* or idle.
C15_LeavesConverting ==
    (conversionState = "converting") ~> (conversionState \in {"completed", "idle"})


\* C16: each accepted Submit issues exactly one network call, whose body holds
\* the PDF, the article type and every figure, in list order, selected at the
\* moment of submit; entering converting leaves the validation issues and a
\* held artifact unchanged, and an article type or figures changed afterwards
\* do not alter a request in flight.
C16_OneCallWithSelection ==
    [][/\ (last'.op = "handleSubmit" /\ last'.alert = "") =>
             /\ \E call \in BagToSet(requests') :
                   /\ call.pc = "fetch"
                   /\ call.body.pdf = pdfFile
                   /\ call.body.articleType = articleType
                   /\ call.body.figures = figures
                   /\ requests' = requests (+) SetToBag({call})
             /\ conversionState' = "converting"
             /\ UNCHANGED <<validationErrors, downloadUrl>>
       /\ last'.op \in {"setArticleType", "handleFigureUpload"} =>
             UNCHANGED requests]_vars

\* a conversion was re-submitted with two figures while issues and an artifact
\* of the previous one were held, and the article type was changed afterwards
C16_Witness ==
    /\ last.op = "setArticleType"
    /\ conversionState = "converting"
    /\ validationErrors # <<>>
    /\ downloadUrl # NullUrl
    /\ \E r \in PendingCalls :
          /\ r.pc = "fetch"
          /\ r.body.figures = <<Jpg, Png>>
          /\ r.body.articleType # articleType

\* C17: a file whose type is not application/pdf, or no file, supplied to the
\* PDF slot is rejected with an alert, and the session keeps its selected PDF,
\* conversion state, download artifact and validation issues: the form goes
\* on holding them.
C17_RejectedPdfKeepsSession ==
    [][(last'.op = "handlePDFUpload" /\ last'.arg.type # "application/pdf") =>
          /\ last'.alert = "Please upload a PDF file"
          /\ UNCHANGED <<pdfFile, conversionState, downloadUrl, validationErrors>>
          /\ UNCHANGED mounted]_vars

\* C18: whenever the conversion state is completed and a download artifact is
\* held, a PDF is selected, so the success panel and Download can derive the
\* filename from its name.
C18_CompletedHasPdf ==
    (conversionState = "completed" /\ downloadUrl # NullUrl) => pdfFile # Null

\* C19: a download artifact is held exactly when the conversion state is
\* completed: completed implies an artifact is held, and none is held while
\* the state is idle or converting.
C19_ArtifactIffCompleted ==
    (downloadUrl # NullUrl) <=> (conversionState = "completed")

\* C20: the selection each DropZone holds agrees with the session: the list
\* of the multiple one is the figure list, and the single one holds the
\* selected PDF and nothing when no PDF is selected.
C20_ZonesAgreeWithSession ==
    /\ figZoneFiles = figures
    /\ pdfZoneFiles = (IF pdfFile = Null THEN <<>> ELSE <<pdfFile>>)
=============================================================================
